---- MODULE Spec2Model ----
(***************************************************************************)
(* Model of weather.py: a small ETL that provisions four MySQL tables      *)
(* (dim_city, dim_date, current_weather, historical_weather) and runs one  *)
(* collection batch over a fixed tuple of cities per process start.        *)
(*                                                                         *)
(* The store is modelled with its committed contents and, separately, the  *)
(* view of the single batch connection (tx_cw, tx_hw): mysql.connector     *)
(* runs with autocommit off, so a statement executed on the connection is  *)
(* pending until some con.commit() on that connection, and is discarded    *)
(* when the connection is closed or lost without a commit.                 *)
(*                                                                         *)
(* Failure model.  An HTTP step either returns or raises.  A statement on  *)
(* the connection ends in one of: "ok"; "err" (the statement raised, the   *)
(* connection and its open transaction stay usable); "lost" (the           *)
(* connection is gone: the server rolls the open transaction back and      *)
(* every later statement on that connection raises).  COMMIT has the       *)
(* outcomes "ok" and "lost".  A statement on a table that was never        *)
(* created never ends in "ok".                                             *)
(***************************************************************************)
EXTENDS Integers, Sequences, FiniteSets, TLC

\* ---------------------------------------------------------------- bounds --
\* number of cities of the tuple `cities` that the model iterates over
NumCities == 2
\* number of process starts (python weather.py) in a behaviour
MaxRuns == 2
\* longest forecast list given to the aggregation in SpecAgg
MaxAggLen == 4

\* ------------------------------------------------------------ the inputs --
AllCities == <<"Casablanca", "Marrakech", "Rabat", "Agadir">>

cities == SubSeq(AllCities, 1, NumCities)

CityIdx == 1..NumCities

TableNames == <<"dim_city", "dim_date", "current_weather", "historical_weather">>

\* (lat, lon) pairs the geocoder may answer with (scaled to integers)
Coords == {<<33, -7>>, <<34, -6>>}

D(y, m, d) == [year |-> y, month |-> m, day |-> d]

\* the instants datetime.now() may return, in increasing order
Timeline == << [date |-> D(2026, 12, 31), secs |-> 8 * 3600 + 5],
               [date |-> D(2026, 12, 31), secs |-> 20 * 3600 + 30 * 60],
               [date |-> D(2027, 1, 4),   secs |-> 8 * 3600 + 5] >>

NoTime == [date |-> D(0, 0, 0), secs |-> 0]

TimelineDates == {Timeline[i].date : i \in 1..Len(Timeline)}

AggTemps == {19, 20, 22}

Conditions == {[humidity |-> 60, wind |-> 3, description |-> "clear sky"],
               [humidity |-> 85, wind |-> 7, description |-> "light rain"]}

\* one element of data["list"]
Entry(dt, t, c) ==
    [dt_txt |-> dt, temp |-> t, humidity |-> c.humidity, wind |-> c.wind,
     description |-> c.description]

SeqsUpTo(S, n) == UNION {[1..k -> S] : k \in 0..n}

\* --------------------------------------------------- calendar arithmetic --
IsLeap(y) == (y % 4 = 0) /\ ((y % 100 # 0) \/ (y % 400 = 0))

DaysInMonth(y, m) ==
    IF m = 2 THEN (IF IsLeap(y) THEN 29 ELSE 28)
    ELSE IF m \in {4, 6, 9, 11} THEN 30 ELSE 31

RECURSIVE DaysBeforeMonth(_, _)
DaysBeforeMonth(y, m) ==
    IF m = 1 THEN 0 ELSE DaysBeforeMonth(y, m - 1) + DaysInMonth(y, m - 1)

DaysBeforeYear(y) ==
    (y - 1) * 365 + ((y - 1) \div 4) - ((y - 1) \div 100) + ((y - 1) \div 400)

\* date.toordinal()
ToOrdinal(d) == DaysBeforeYear(d.year) + DaysBeforeMonth(d.year, d.month) + d.day

\* date.weekday(): Monday = 0
Weekday(d) == (ToOrdinal(d) + 6) % 7

DayNames == <<"Monday", "Tuesday", "Wednesday", "Thursday", "Friday",
              "Saturday", "Sunday">>

\* date_obj.strftime("%A")
DayName(d) == DayNames[Weekday(d) + 1]

IsoWeek1Monday(y) ==
    LET firstday == ToOrdinal(D(y, 1, 1))
        firstweekday == (firstday + 6) % 7
    IN  IF firstweekday > 3 THEN firstday - firstweekday + 7
        ELSE firstday - firstweekday

\* date_obj.isocalendar()[1]
IsoWeek(d) ==
    LET today == ToOrdinal(d)
        off == today - IsoWeek1Monday(d.year)
    IN  IF off < 0 THEN ((today - IsoWeek1Monday(d.year - 1)) \div 7) + 1
        ELSE IF (off \div 7) >= 52 /\ today >= IsoWeek1Monday(d.year + 1) THEN 1
        ELSE (off \div 7) + 1

\* the calendar day after d
NextDay(d) ==
    IF d.day < DaysInMonth(d.year, d.month) THEN D(d.year, d.month, d.day + 1)
    ELSE IF d.month < 12 THEN D(d.year, d.month + 1, 1)
    ELSE D(d.year + 1, 1, 1)

Clear == [humidity |-> 60, wind |-> 3, description |-> "clear sky"]

Rain == [humidity |-> 85, wind |-> 7, description |-> "light rain"]

\* the answers of the forecast provider on the day `today` that Spec draws
\* from: an empty list, a list that starts on a later day, a list whose
\* first entry is of a later day, and a list with two entries of today
Forecasts(today) ==
    { <<>>,
      <<Entry(NextDay(today), 22, Rain)>>,
      <<Entry(NextDay(today), 22, Rain), Entry(today, 19, Clear)>>,
      <<Entry(today, 22, Clear), Entry(today, 19, Rain)>> }

\* the days and the lists the aggregation is exercised on in SpecAgg
AggDates == {D(2026, 12, 31), D(2027, 1, 1)}

AggEntries == {Entry(dt, t, c) : dt \in AggDates, t \in AggTemps, c \in Conditions}

AggForecasts == SeqsUpTo(AggEntries, MaxAggLen)

Quarter(month) == ((month - 1) \div 3) + 1

\* the dim_date row inserted for date_obj (lines 108-118)
DateRow(id, date_obj) ==
    [date_id |-> id, full_date |-> date_obj.date,
     year |-> date_obj.date.year, month |-> date_obj.date.month,
     day |-> date_obj.date.day, quarter |-> Quarter(date_obj.date.month),
     day_name |-> DayName(date_obj.date), week_of_year |-> IsoWeek(date_obj.date)]

\* now.strftime('%H:%M:%S') as <<hours, minutes, seconds>>
FormatTime(date_obj) ==
    <<date_obj.secs \div 3600, (date_obj.secs % 3600) \div 60, date_obj.secs % 60>>

\* ------------------------------------------------------------ aggregation --
RECURSIVE SelectTemps(_, _)
\* [entry.temp for entry in list if entry.dt_txt.startswith(today_str)]
SelectTemps(list, today) ==
    IF list = <<>> THEN <<>>
    ELSE IF Head(list).dt_txt = today
         THEN <<Head(list).temp>> \o SelectTemps(Tail(list), today)
         ELSE SelectTemps(Tail(list), today)

SeqMin(s) == CHOOSE x \in {s[i] : i \in 1..Len(s)} : \A j \in 1..Len(s) : x <= s[j]

SeqMax(s) == CHOOSE x \in {s[i] : i \in 1..Len(s)} : \A j \in 1..Len(s) : x >= s[j]

\* the temperatures of all entries, whatever their day
TempsOf_Unfiltered(list, today) == [i \in 1..Len(list) |-> list[i].temp]

\* lines 143-147: the temperatures the three aggregates are computed from
TempsOf(list, today) ==
    IF SelectTemps(list, today) = <<>> THEN <<list[1].temp>>
    ELSE SelectTemps(list, today)

\* an aggregation that takes the conditions from the entry the temperature
\* is taken from: the first entry of the collection day, if there is one
Aggregate_ConditionsOfToday(list, today) ==
    LET ofToday == {i \in 1..Len(list) : list[i].dt_txt = today}
        k == IF ofToday = {} THEN 1
             ELSE CHOOSE i \in ofToday : \A j \in ofToday : i <= j
    IN  [temp_now |-> TempsOf(list, today)[1],
         temp_min |-> SeqMin(TempsOf(list, today)),
         temp_max |-> SeqMax(TempsOf(list, today)),
         humidity |-> list[k].humidity,
         wind_speed |-> list[k].wind,
         condition_text |-> list[k].description]

\* lines 143-156, for a non-empty list
Aggregate(list, today) ==
    [temp_now |-> TempsOf(list, today)[1],
     temp_min |-> SeqMin(TempsOf(list, today)),
     temp_max |-> SeqMax(TempsOf(list, today)),
     humidity |-> list[1].humidity,
     wind_speed |-> list[1].wind,
     condition_text |-> list[1].description]

\* ------------------------------------------------------------- the state --
VARIABLES
    \* the store: which tables exist and their committed rows
    tables, dim_city, dim_date, current_weather, historical_weather,
    \* the batch connection ("closed", "open", "lost") and its view of the two
    \* fact tables, uncommitted statements included
    con, tx_cw, tx_hw,
    \* the process: position, number of the process start, loop index, report
    pc, runNo, idx, results, schemaErr, reported, exitStatus, clock,
    \* locals of the loop body of collect_weather
    lat, lon, city_id, now, date_id, data,
    temp_now, temp_min, temp_max, humidity, wind_speed, condition,
    \* history variables (observers, never read by an action's guard)
    fault, startSnap, startHist, lastGood, firstCityId, firstDateId, geoCalled,
    \* input and output of the aggregation when it is exercised on its own
    aggIn, aggToday, aggOut,
    \* the sessions that run get_or_create_city side by side, and the
    \* AUTO_INCREMENT counter of dim_city they share
    sess,
    \* where the process was when it was interrupted ("" when it was not)
    killedAt

dbVars == <<tables, dim_city, dim_date, current_weather, historical_weather>>

conVars == <<con, tx_cw, tx_hw>>

procVars == <<pc, runNo, idx, results, schemaErr, reported, exitStatus, clock>>

localVars == <<lat, lon, city_id, now, date_id, data,
               temp_now, temp_min, temp_max, humidity, wind_speed, condition>>

histVars == <<fault, startSnap, startHist, lastGood, firstCityId, firstDateId,
              geoCalled>>

aggVars == <<aggIn, aggToday, aggOut>>

raceVars == <<sess>>

\* what the actions of collect_weather never touch
offVars == <<aggVars, raceVars, killedAt>>

vars == <<dbVars, conVars, procVars, localVars, histVars, offVars>>

NoReading == [temp_now |-> 0, temp_min |-> 0, temp_max |-> 0, humidity |-> 0,
              wind_speed |-> 0, condition_text |-> ""]

Reading == [temp_now |-> temp_now, temp_min |-> temp_min, temp_max |-> temp_max,
            humidity |-> humidity, wind_speed |-> wind_speed,
            condition_text |-> condition]

\* the measurement fields of a fact row
Measurement(row) ==
    [temp_now |-> row.temp_now, temp_min |-> row.temp_min,
     temp_max |-> row.temp_max, humidity |-> row.humidity,
     wind_speed |-> row.wind_speed, condition_text |-> row.condition_text]

LocalsCleared ==
    /\ lat' = 0 /\ lon' = 0 /\ city_id' = 0 /\ now' = NoTime /\ date_id' = 0
    /\ data' = <<>> /\ temp_now' = 0 /\ temp_min' = 0 /\ temp_max' = 0
    /\ humidity' = 0 /\ wind_speed' = 0 /\ condition' = ""

ProcInit ==
    /\ pc = "main" /\ idx = 0 /\ results = <<>> /\ schemaErr = "none"
    /\ reported = FALSE /\ exitStatus = -1
    /\ lat = 0 /\ lon = 0 /\ city_id = 0 /\ now = NoTime /\ date_id = 0
    /\ data = <<>> /\ temp_now = 0 /\ temp_min = 0 /\ temp_max = 0
    /\ humidity = 0 /\ wind_speed = 0 /\ condition = ""
    /\ con = "closed"

StoreInit ==
    /\ tables = {} /\ dim_city = {} /\ dim_date = {}
    /\ current_weather = {} /\ historical_weather = <<>>
    /\ tx_cw = {} /\ tx_hw = <<>>

HistInit ==
    /\ fault = [i \in CityIdx |-> FALSE]
    /\ startSnap = {} /\ startHist = <<>>
    /\ lastGood = [i \in CityIdx |-> NoReading]
    /\ firstCityId = [i \in CityIdx |-> 0]
    /\ firstDateId = [d \in TimelineDates |-> 0]
    /\ geoCalled = {}

Init ==
    /\ StoreInit /\ ProcInit /\ HistInit
    /\ runNo = 1 /\ clock = 1
    /\ aggIn = <<>> /\ aggToday = NoTime.date /\ aggOut = NoReading
    /\ sess = <<>> /\ killedAt = ""

\* --------------------------------------------------------- create_schema --
\* DROP TABLE IF EXISTS followed by CREATE TABLE
CreateTable_DropFirst(exists, rows, empty) == [error |-> FALSE, rows |-> empty]

\* one CREATE TABLE IF NOT EXISTS statement on a table that exists or not
CreateTableIfNotExists(exists, rows, empty) ==
    [error |-> FALSE, rows |-> IF exists THEN rows ELSE empty]

\* create_schema(): `k` statements are let through by the store (k < 4: the
\* store is unreachable or refuses the next statement); a statement that
\* raises ends the function in its except clause, which prints the error:
\* schemaErr is "none", "store" (the store refused) or "statement" (the
\* statement itself was in error).  DDL commits implicitly.
create_schema ==
    /\ pc = "main"
    /\ \E k \in 0..4 :
         LET r1 == CreateTableIfNotExists("dim_city" \in tables, dim_city, {})
             r2 == CreateTableIfNotExists("dim_date" \in tables, dim_date, {})
             r3 == CreateTableIfNotExists("current_weather" \in tables,
                                          current_weather, {})
             r4 == CreateTableIfNotExists("historical_weather" \in tables,
                                          historical_weather, <<>>)
             errs == <<r1.error, r2.error, r3.error, r4.error>>
             ran(i) == i <= k /\ \A j \in 1..i : ~errs[j]
         IN  /\ tables' = tables \cup {TableNames[i] : i \in {j \in 1..4 : ran(j)}}
             /\ dim_city' = IF ran(1) THEN r1.rows ELSE dim_city
             /\ dim_date' = IF ran(2) THEN r2.rows ELSE dim_date
             /\ current_weather' = IF ran(3) THEN r3.rows ELSE current_weather
             /\ historical_weather' = IF ran(4) THEN r4.rows ELSE historical_weather
             /\ schemaErr' = IF \E i \in 1..4 : i <= k /\ errs[i] /\ ran(i - 1)
                             THEN "statement"
                             ELSE IF k < 4 THEN "store" ELSE "none"
    /\ tx_cw' = current_weather' /\ tx_hw' = historical_weather'
    /\ pc' = "collect"
    /\ UNCHANGED <<con, runNo, idx, results, reported, exitStatus, clock>>
    /\ UNCHANGED <<localVars, histVars, offVars>>

\* ------------------------------------------------------- collect_weather --
\* lines 124-128 and 182-184: open the batch connection, or print the DB
\* error and return without a report
Connect ==
    /\ pc = "collect"
    /\ \/ /\ con' = "open" /\ pc' = "geocode" /\ idx' = 1
       \/ /\ con' = "closed" /\ pc' = "finish" /\ idx' = 0
    /\ results' = <<>>
    /\ UNCHANGED <<dbVars, tx_cw, tx_hw, runNo, schemaErr, reported, exitStatus,
                   clock, localVars, histVars, offVars>>

\* the loop moves on to the next city, or leaves the loop
NextCity ==
    /\ idx' = idx + 1
    /\ pc' = IF idx = NumCities THEN "report" ELSE "geocode"
    /\ LocalsCleared
    /\ UNCHANGED <<runNo, schemaErr, reported, exitStatus>>

\* a failure handler that leaves the loop instead of going on with the next city
Failed_AbortsLoop(step) ==
    /\ results' = Append(results, [ok |-> FALSE, city |-> cities[idx], err |-> "error"])
    /\ fault' = [fault EXCEPT ![idx] = TRUE]
    /\ idx' = NumCities + 1
    /\ pc' = "report"
    /\ LocalsCleared
    /\ UNCHANGED <<runNo, schemaErr, reported, exitStatus>>

\* a failure handler that runs the body of the same city again
Failed_Retry(step) ==
    /\ results' = results
    /\ fault' = [fault EXCEPT ![idx] = TRUE]
    /\ idx' = idx
    /\ pc' = "geocode"
    /\ LocalsCleared
    /\ UNCHANGED <<runNo, schemaErr, reported, exitStatus>>

\* lines 179-180: the except clause of the loop body, entered from `step`;
\* the message of the exception is not modelled
Failed(step) ==
    /\ results' = Append(results, [ok |-> FALSE, city |-> cities[idx], err |-> "error"])
    /\ fault' = [fault EXCEPT ![idx] = TRUE]
    /\ NextCity

\* the outcomes of one statement on table t of the batch connection
Outcomes(t) ==
    IF con # "open" THEN {"err"}
    ELSE IF t \notin tables THEN {"err", "lost"}
    ELSE {"ok", "err", "lost"}

CommitOutcomes == IF con # "open" THEN {"err"} ELSE {"ok", "lost"}

\* the connection is lost: the server rolls the open transaction back
ConLost == con' = "lost" /\ tx_cw' = current_weather' /\ tx_hw' = historical_weather'

\* con.commit(): everything pending on the connection becomes committed
Committed == current_weather' = tx_cw /\ historical_weather' = tx_hw

\* line 132, get_city_coordinates(city)
Geocode ==
    /\ pc = "geocode"
    /\ geoCalled' = geoCalled \cup {idx}
    /\ \/ /\ \E c \in Coords : lat' = c[1] /\ lon' = c[2]
          /\ pc' = "city"
          /\ UNCHANGED <<results, fault, idx, city_id, now, date_id, data,
                         temp_now, temp_min, temp_max, humidity, wind_speed,
                         condition, runNo, schemaErr, reported, exitStatus>>
       \/ Failed("geocode")
    /\ UNCHANGED <<dbVars, conVars, clock, startSnap, startHist, lastGood,
                   firstCityId, firstDateId, offVars>>

\* the success path stays inside the loop body of the current city
InBody ==
    UNCHANGED <<idx, results, fault, runNo, schemaErr, reported, exitStatus>>

MaxOf(S) == IF S = {} THEN 0 ELSE CHOOSE x \in S : \A y \in S : y <= x

\* AUTO_INCREMENT of dim_city.city_id
NextCityId(rows) == MaxOf({r.city_id : r \in rows}) + 1

\* a plain INSERT into a dim_city whose name column is not unique
InsertCity_NoIgnore(rows, name, la, lo) ==
    rows \cup {[city_id |-> NextCityId(rows), name |-> name, lat |-> la, lon |-> lo]}

\* INSERT ... ON DUPLICATE KEY UPDATE lat, lon: the row of the name takes the
\* coordinates of the call
InsertCity_UpdateCoords(rows, name, la, lo) ==
    IF \E r \in rows : r.name = name
    THEN {IF r.name = name THEN [r EXCEPT !.lat = la, !.lon = lo] ELSE r : r \in rows}
    ELSE rows \cup {[city_id |-> NextCityId(rows), name |-> name,
                     lat |-> la, lon |-> lo]}

\* line 92: INSERT IGNORE INTO dim_city, name being UNIQUE (line 28)
InsertIgnoreCity(rows, name, la, lo) ==
    IF \E r \in rows : r.name = name THEN rows
    ELSE rows \cup {[city_id |-> NextCityId(rows), name |-> name,
                     lat |-> la, lon |-> lo]}

\* line 94: SELECT city_id FROM dim_city WHERE name = %s
SelectCityId(rows, name) == {r.city_id : r \in {x \in rows : x.name = name}}

\* line 133, get_or_create_city(con, city, lat, lon)
get_or_create_city ==
    /\ pc = "city"
    /\ \/ \* the INSERT raises
          /\ UNCHANGED <<dbVars, firstCityId>>
          /\ \E o \in Outcomes("dim_city") \ {"ok"} :
               IF o = "lost" THEN ConLost ELSE UNCHANGED conVars
          /\ Failed("city")
       \/ \* the INSERT is executed, the commit of line 93 raises
          /\ "ok" \in Outcomes("dim_city")
          /\ UNCHANGED <<dbVars, firstCityId>>
          /\ ConLost
          /\ Failed("city")
       \/ \* INSERT and commit are done; the commit also commits what was
          \* pending on the connection
          /\ "ok" \in Outcomes("dim_city")
          /\ dim_city' = InsertIgnoreCity(dim_city, cities[idx], lat, lon)
          /\ Committed
          /\ UNCHANGED <<tables, dim_date>>
          /\ \/ \E id \in SelectCityId(dim_city', cities[idx]) :
                  /\ city_id' = id
                  /\ firstCityId' = IF firstCityId[idx] = 0
                                    THEN [firstCityId EXCEPT ![idx] = id]
                                    ELSE firstCityId
                  /\ pc' = "date"
                  /\ InBody
                  /\ UNCHANGED <<conVars, lat, lon, now, date_id, data, temp_now,
                                 temp_min, temp_max, humidity, wind_speed, condition>>
             \/ /\ \E o \in {"err", "lost"} :
                     IF o = "lost" THEN ConLost ELSE UNCHANGED conVars
                /\ UNCHANGED firstCityId
                /\ Failed("city")
    /\ UNCHANGED <<clock, startSnap, startHist, lastGood, firstDateId, geoCalled,
                   offVars>>

\* AUTO_INCREMENT of dim_date.date_id
NextDateId(rows) == MaxOf({r.date_id : r \in rows}) + 1

\* a lookup keyed on the whole timestamp, which no stored date equals
SelectDateId_ByTimestamp(rows, full_date) ==
    {r.date_id : r \in {x \in rows : x.full_date = [date |-> full_date, secs |-> 1]}}

\* line 102: SELECT date_id FROM dim_date WHERE full_date = %s
SelectDateId(rows, full_date) ==
    {r.date_id : r \in {x \in rows : x.full_date = full_date}}

\* an INSERT into dim_date that stores no row
InsertDate_Dropped(rows, date_obj) == rows

\* lines 108-121: the row is inserted with the derived fields of date_obj
InsertDate(rows, date_obj) == rows \cup {DateRow(NextDateId(rows), date_obj)}

\* lines 135-137: now = datetime.now(); get_or_create_date(con, now)
get_or_create_date ==
    /\ pc = "date"
    /\ \E t \in clock..Len(Timeline) :
         /\ clock' = t
         /\ \/ \* the SELECT raises
               /\ UNCHANGED <<dbVars, firstDateId>>
               /\ \E o \in Outcomes("dim_date") \ {"ok"} :
                    IF o = "lost" THEN ConLost ELSE UNCHANGED conVars
               /\ Failed("date")
            \/ \* the date is there: its id is returned, nothing is committed
               /\ "ok" \in Outcomes("dim_date")
               /\ \E id \in SelectDateId(dim_date, Timeline[t].date) :
                    /\ date_id' = id
               /\ now' = Timeline[t]
               /\ pc' = "fetch"
               /\ InBody
               /\ UNCHANGED <<dbVars, conVars, firstDateId, lat, lon, city_id, data,
                              temp_now, temp_min, temp_max, humidity, wind_speed,
                              condition>>
            \/ \* the date is not there and the INSERT raises, or its commit
               /\ "ok" \in Outcomes("dim_date")
               /\ SelectDateId(dim_date, Timeline[t].date) = {}
               /\ UNCHANGED <<dbVars, firstDateId>>
               /\ \E o \in {"err", "lost"} :
                    IF o = "lost" THEN ConLost ELSE UNCHANGED conVars
               /\ Failed("date")
            \/ \* the date is not there: it is inserted and committed
               /\ "ok" \in Outcomes("dim_date")
               /\ SelectDateId(dim_date, Timeline[t].date) = {}
               /\ dim_date' = InsertDate(dim_date, Timeline[t])
               /\ Committed
               /\ UNCHANGED <<tables, dim_city, conVars>>
               /\ date_id' = NextDateId(dim_date)
               /\ firstDateId' =
                    IF firstDateId[Timeline[t].date] = 0
                    THEN [firstDateId EXCEPT ![Timeline[t].date] = NextDateId(dim_date)]
                    ELSE firstDateId
               /\ now' = Timeline[t]
               /\ pc' = "fetch"
               /\ InBody
               /\ UNCHANGED <<lat, lon, city_id, data, temp_now, temp_min, temp_max,
                              humidity, wind_speed, condition>>
    /\ UNCHANGED <<startSnap, startHist, lastGood, firstCityId, geoCalled, offVars>>

\* lines 138-141: the forecast request
Fetch ==
    /\ pc = "fetch"
    /\ \/ /\ \E f \in Forecasts(now.date) : data' = f
          /\ pc' = "aggregate"
          /\ InBody
          /\ UNCHANGED <<lat, lon, city_id, now, date_id, temp_now, temp_min,
                         temp_max, humidity, wind_speed, condition>>
       \/ Failed("fetch")
    /\ UNCHANGED <<dbVars, conVars, clock, startSnap, startHist, lastGood,
                   firstCityId, firstDateId, geoCalled, offVars>>

\* lines 143-156: an empty list raises IndexError at data["list"][0]
AggregateStep ==
    /\ pc = "aggregate"
    /\ \/ /\ data # <<>>
          /\ LET a == Aggregate(data, now.date)
             IN  /\ temp_now' = a.temp_now /\ temp_min' = a.temp_min
                 /\ temp_max' = a.temp_max /\ humidity' = a.humidity
                 /\ wind_speed' = a.wind_speed /\ condition' = a.condition_text
          /\ data' = <<>>
          /\ pc' = "upsert"
          /\ InBody
          /\ UNCHANGED <<lat, lon, city_id, now, date_id>>
       \/ /\ data = <<>>
          /\ Failed("aggregate")
    /\ UNCHANGED <<dbVars, conVars, clock, startSnap, startHist, lastGood,
                   firstCityId, firstDateId, geoCalled, offVars>>

\* lines 159-167: INSERT ... ON DUPLICATE KEY UPDATE, city_id being the
\* primary key (line 48): the row of that city is replaced, or added
UpsertSnapshot(rows, id, reading, at) ==
    {r \in rows : r.city_id # id}
      \cup {[city_id |-> id, temp_now |-> reading.temp_now,
             temp_min |-> reading.temp_min, temp_max |-> reading.temp_max,
             humidity |-> reading.humidity, wind_speed |-> reading.wind_speed,
             condition_text |-> reading.condition_text, last_updated |-> at]}

\* an upsert on a connection in autocommit mode: committed as it is executed
Upsert_Autocommit ==
    /\ pc = "upsert"
    /\ UNCHANGED <<tables, dim_city, dim_date, historical_weather>>
    /\ \/ /\ "ok" \in Outcomes("current_weather")
          /\ tx_cw' = UpsertSnapshot(tx_cw, city_id, Reading, now)
          /\ current_weather' = tx_cw'
          /\ UNCHANGED <<con, tx_hw>>
          /\ pc' = "append"
          /\ InBody
          /\ UNCHANGED localVars
       \/ /\ current_weather' = current_weather
          /\ \E o \in Outcomes("current_weather") \ {"ok"} :
               IF o = "lost" THEN ConLost ELSE UNCHANGED conVars
          /\ Failed("upsert")
    /\ UNCHANGED <<clock, startSnap, startHist, lastGood, firstCityId, firstDateId,
                   geoCalled, offVars>>

\* lines 159-167: executed on the connection, not committed
Upsert ==
    /\ pc = "upsert"
    /\ UNCHANGED dbVars
    /\ \/ /\ "ok" \in Outcomes("current_weather")
          /\ tx_cw' = UpsertSnapshot(tx_cw, city_id, Reading, now)
          /\ UNCHANGED <<con, tx_hw>>
          /\ pc' = "append"
          /\ InBody
          /\ UNCHANGED localVars
       \/ /\ \E o \in Outcomes("current_weather") \ {"ok"} :
               IF o = "lost" THEN ConLost ELSE UNCHANGED conVars
          /\ Failed("upsert")
    /\ UNCHANGED <<clock, startSnap, startHist, lastGood, firstCityId, firstDateId,
                   geoCalled, offVars>>

\* a history write that keeps one row per (city, date)
AppendHistory_ReplaceSameDay(rows, id, did, tm, reading) ==
    LET kept == SelectSeq(rows, LAMBDA r : r.city_id # id \/ r.date_id # did)
    IN  Append(kept, [history_id |-> Len(kept) + 1, city_id |-> id, date_id |-> did,
                      time_measured |-> tm, temp_now |-> reading.temp_now,
                      temp_min |-> reading.temp_min, temp_max |-> reading.temp_max,
                      humidity |-> reading.humidity,
                      wind_speed |-> reading.wind_speed,
                      condition_text |-> reading.condition_text])

\* lines 170-174: a plain INSERT, history_id being AUTO_INCREMENT
AppendHistory(rows, id, did, tm, reading) ==
    Append(rows, [history_id |-> Len(rows) + 1, city_id |-> id, date_id |-> did,
                  time_measured |-> tm, temp_now |-> reading.temp_now,
                  temp_min |-> reading.temp_min, temp_max |-> reading.temp_max,
                  humidity |-> reading.humidity, wind_speed |-> reading.wind_speed,
                  condition_text |-> reading.condition_text])

\* lines 170-174: executed on the connection, not committed
AppendStep ==
    /\ pc = "append"
    /\ UNCHANGED dbVars
    /\ \/ /\ "ok" \in Outcomes("historical_weather")
          /\ tx_hw' = AppendHistory(tx_hw, city_id, date_id, FormatTime(now), Reading)
          /\ UNCHANGED <<con, tx_cw>>
          /\ pc' = "commit"
          /\ InBody
          /\ UNCHANGED localVars
       \/ /\ \E o \in Outcomes("historical_weather") \ {"ok"} :
               IF o = "lost" THEN ConLost ELSE UNCHANGED conVars
          /\ Failed("append")
    /\ UNCHANGED <<clock, startSnap, startHist, lastGood, firstCityId, firstDateId,
                   geoCalled, offVars>>

\* the success entry is appended before con.commit() is called
CommitFacts_ReportFirst ==
    /\ pc = "commit"
    /\ UNCHANGED <<tables, dim_city, dim_date>>
    /\ \/ /\ "ok" \in CommitOutcomes
          /\ Committed
          /\ UNCHANGED conVars
          /\ results' = Append(results, [ok |-> TRUE, city |-> cities[idx],
                                         temp_now |-> temp_now])
          /\ lastGood' = [lastGood EXCEPT ![idx] = Reading]
          /\ UNCHANGED fault
          /\ NextCity
       \/ /\ UNCHANGED <<current_weather, historical_weather, lastGood>>
          /\ IF con = "open" THEN ConLost ELSE UNCHANGED conVars
          /\ results' = Append(Append(results, [ok |-> TRUE, city |-> cities[idx],
                                                temp_now |-> temp_now]),
                               [ok |-> FALSE, city |-> cities[idx], err |-> "error"])
          /\ fault' = [fault EXCEPT ![idx] = TRUE]
          /\ NextCity
    /\ UNCHANGED <<clock, startSnap, startHist, firstCityId, firstDateId,
                   geoCalled, offVars>>

\* the success entry is appended without a call of con.commit()
CommitFacts_NoCommit ==
    /\ pc = "commit"
    /\ UNCHANGED <<dbVars, conVars>>
    /\ results' = Append(results, [ok |-> TRUE, city |-> cities[idx],
                                   temp_now |-> temp_now])
    /\ lastGood' = [lastGood EXCEPT ![idx] = Reading]
    /\ UNCHANGED fault
    /\ NextCity
    /\ UNCHANGED <<clock, startSnap, startHist, firstCityId, firstDateId,
                   geoCalled, offVars>>

\* lines 176-177: con.commit(), then the success entry
CommitFacts ==
    /\ pc = "commit"
    /\ UNCHANGED <<tables, dim_city, dim_date>>
    /\ \/ /\ "ok" \in CommitOutcomes
          /\ Committed
          /\ UNCHANGED conVars
          /\ results' = Append(results, [ok |-> TRUE, city |-> cities[idx],
                                         temp_now |-> temp_now])
          /\ lastGood' = [lastGood EXCEPT ![idx] = Reading]
          /\ UNCHANGED fault
          /\ NextCity
       \/ /\ UNCHANGED <<current_weather, historical_weather, lastGood>>
          /\ IF con = "open" THEN ConLost ELSE UNCHANGED conVars
          /\ Failed("commit")
    /\ UNCHANGED <<clock, startSnap, startHist, firstCityId, firstDateId,
                   geoCalled, offVars>>

\* lines 181-188: the connection is closed on leaving the with block (what is
\* still pending on it is rolled back) and the report is printed
Report ==
    /\ pc = "report"
    /\ con' = "closed" /\ tx_cw' = current_weather /\ tx_hw' = historical_weather
    /\ reported' = TRUE
    /\ pc' = "finish"
    /\ UNCHANGED <<dbVars, runNo, idx, results, schemaErr, exitStatus, clock,
                   localVars, histVars, offVars>>

\* line 193: the completion marker; the interpreter then exits with status 0
Finish ==
    /\ pc = "finish"
    /\ pc' = "exit"
    /\ exitStatus' = 0
    /\ UNCHANGED <<dbVars, conVars, runNo, idx, results, schemaErr, reported, clock,
                   localVars, histVars, offVars>>

\* the script is started again on the same store (lines 190-191)
NewProcess ==
    /\ pc = "exit"
    /\ runNo < MaxRuns
    /\ runNo' = runNo + 1
    /\ pc' = "main" /\ idx' = 0 /\ results' = <<>> /\ schemaErr' = "none"
    /\ reported' = FALSE /\ exitStatus' = -1
    /\ fault' = [i \in CityIdx |-> FALSE]
    /\ startSnap' = current_weather /\ startHist' = historical_weather
    /\ geoCalled' = {}
    /\ killedAt' = ""
    /\ UNCHANGED <<dbVars, conVars, clock, localVars, lastGood, firstCityId,
                   firstDateId, aggVars, raceVars>>

Next ==
    \/ create_schema
    \/ Connect
    \/ Geocode
    \/ get_or_create_city
    \/ get_or_create_date
    \/ Fetch
    \/ AggregateStep
    \/ Upsert
    \/ AppendStep
    \/ CommitFacts
    \/ Report
    \/ Finish
    \/ NewProcess

Spec == Init /\ [][Next]_vars

\* ------------------------------------- the aggregation exercised on its own --
InitAgg ==
    /\ StoreInit /\ ProcInit /\ HistInit
    /\ runNo = 1 /\ clock = 1
    /\ aggIn \in AggForecasts \ {<<>>}
    /\ aggToday \in AggDates
    /\ aggOut = NoReading
    /\ sess = <<>> /\ killedAt = ""

\* lines 143-156 applied to aggIn on the collection day aggToday
ApplyAggregate ==
    /\ aggOut = NoReading
    /\ aggOut' = Aggregate(aggIn, aggToday)
    /\ UNCHANGED <<dbVars, conVars, procVars, localVars, histVars, aggIn, aggToday,
                   raceVars, killedAt>>

NextAgg == ApplyAggregate

SpecAgg == InitAgg /\ [][NextAgg]_vars

\* --------------------------------------------------------------- claims --
\* the loop of the batch was entered and has gone through the whole tuple
BatchEnded == pc \in {"report", "finish", "exit"} /\ idx = NumCities + 1

\* the ids dim_city holds for the i-th city of the tuple
IdsOf(i) == SelectCityId(dim_city, cities[i])

\* the rows of a snapshot table that belong to the i-th city
SnapRows(rows, i) == {r \in rows : r.city_id \in IdsOf(i)}

\* the number of rows of a history table that belong to the i-th city
HistCount(rows, i) == Cardinality({k \in 1..Len(rows) : rows[k].city_id \in IdsOf(i)})

FailedCities == {i \in CityIdx : fault[i]}

FailureEntries == {k \in 1..Len(results) : ~results[k].ok}

\* C1: whatever subset of the cities fails in a batch, every city of the
\* tuple is attempted, every city that does not fail has its snapshot row
\* written with the values of this run and exactly one more historical row
\* than at the start of the run, and the report has as many failure entries
\* as there are failing cities.
C1_FailureIsolation ==
    BatchEnded =>
      /\ geoCalled = CityIdx
      /\ \A i \in CityIdx : ~fault[i] =>
           /\ \E r \in current_weather :
                /\ r.city_id \in IdsOf(i)
                /\ Measurement(r) = lastGood[i]
           /\ HistCount(historical_weather, i) = HistCount(startHist, i) + 1
      /\ Cardinality(FailureEntries) = Cardinality(FailedCities)

\* C1 witness: a batch has ended in which the first city failed and the
\* second city went through.
C1_Witness == BatchEnded /\ fault[1] /\ ~fault[2] /\ results[2].ok

\* C2: when create_schema ends in error the run is aborted: collect_weather
\* is not entered, no geocoding call is made and the process does not exit
\* with status 0.
C2_SchemaFailureAborts ==
    schemaErr # "none" =>
      /\ pc \in {"collect", "exit"}
      /\ geoCalled = {}
      /\ exitStatus # 0

\* C3: after any sequence of batch runs current_weather has at most one row
\* per city id, and the row of a city that succeeded at least once holds the
\* measurements of that city's latest successful collection.
C3_SnapshotLatestSuccess ==
    pc = "exit" =>
      /\ \A r1, r2 \in current_weather : r1.city_id = r2.city_id => r1 = r2
      /\ \A i \in CityIdx : lastGood[i] # NoReading =>
           /\ SnapRows(current_weather, i) # {}
           /\ \A r \in SnapRows(current_weather, i) : Measurement(r) = lastGood[i]

IsPrefix(s, t) == Len(s) <= Len(t) /\ SubSeq(t, 1, Len(s)) = s

\* the step appends a success entry to the report
SuccessStep == Len(results') = Len(results) + 1 /\ results'[Len(results')].ok

\* C4: historical_weather is append-only.  Every step keeps the rows that are
\* there as they are; the step that records a city's success adds exactly
\* one row, of that city; every other step (a failure of the city, a commit
\* of a dimension row, a later run) leaves the table as it is.
C4_HistoryAppendOnly ==
    [][ /\ IsPrefix(historical_weather, historical_weather')
        /\ SuccessStep =>
             /\ Len(historical_weather') = Len(historical_weather) + 1
             /\ historical_weather'[Len(historical_weather')].city_id = city_id
             /\ city_id \in IdsOf(idx)
        /\ ~SuccessStep => historical_weather' = historical_weather ]_vars

\* C4 witness: two historical rows of the same city and the same date are
\* both there.
C4_Witness ==
    \E j, k \in 1..Len(historical_weather) :
      /\ j < k
      /\ historical_weather[j].city_id = historical_weather[k].city_id
      /\ historical_weather[j].date_id = historical_weather[k].date_id

\* C5: after a batch run, a city whose report entry is a failure has the
\* snapshot row it had when the run started (or none) and no new historical
\* row.
C5_PipelineAtomic ==
    (BatchEnded /\ reported) =>
      \A i \in CityIdx : fault[i] =>
        /\ SnapRows(current_weather, i) = SnapRows(startSnap, i)
        /\ HistCount(historical_weather, i) = HistCount(startHist, i)

InLoopBody == pc \in {"geocode", "city", "date", "fetch", "aggregate", "upsert",
                      "append", "commit"}

C6_State ==
    /\ InLoopBody => Len(results) = idx - 1
    /\ BatchEnded => Len(results) = NumCities
    /\ \A k \in 1..Len(results) :
         /\ results[k].city = cities[k]
         /\ results[k].ok <=> ~fault[k]
         /\ results[k].ok => results[k].temp_now = lastGood[k].temp_now

C6_Step ==
    SuccessStep =>
      /\ pc = "commit" /\ con = "open" /\ con' = "open"
      /\ current_weather' = tx_cw /\ historical_weather' = tx_hw
      /\ tx_hw[Len(tx_hw)].temp_now = results'[Len(results')].temp_now
      /\ \E r \in tx_cw : r.city_id = city_id /\ r.temp_now = temp_now

\* C6: the report has one entry per city, in the order of the tuple; the
\* entry of a city is a success entry exactly if no step of that city
\* raised, it then carries the city's temp_now, and it is appended by the step
\* whose commit made the city's two fact writes durable.
C6_ReportOrdered == [](C6_State) /\ [][C6_Step]_vars

\* C6 witness: a printed report whose first entry is a failure and whose
\* second entry is a success.
C6_Witness ==
    reported /\ Len(results) = NumCities /\ ~results[1].ok /\ results[2].ok

\* C7: city names (and ids) are unique in dim_city, the id of a name is the
\* id returned the first time the name was resolved, and every resolution
\* returns it.
C7_CityResolutionStable ==
    /\ \A r1, r2 \in dim_city :
         (r1.name = r2.name \/ r1.city_id = r2.city_id) => r1 = r2
    /\ \A i \in CityIdx : firstCityId[i] # 0 => IdsOf(i) = {firstCityId[i]}
    /\ pc \in {"date", "fetch", "aggregate", "upsert", "append", "commit"} =>
         city_id # 0 /\ city_id = firstCityId[idx]

\* C7 witness: in the second run a city is resolved that was resolved, and
\* collected, in the first run.
C7_Witness ==
    /\ runNo = 2 /\ pc = "date"
    /\ \E k \in 1..Len(startHist) : startHist[k].city_id = city_id

C8_State ==
    /\ \A r1, r2 \in dim_date :
         (r1.full_date = r2.full_date \/ r1.date_id = r2.date_id) => r1 = r2
    /\ \A d \in TimelineDates :
         firstDateId[d] # 0 =>
           {r.date_id : r \in {x \in dim_date : x.full_date = d}} = {firstDateId[d]}
    /\ pc \in {"fetch", "aggregate", "upsert", "append", "commit"} =>
         date_id # 0 /\ date_id = firstDateId[now.date]
    /\ \A r \in dim_date :
         /\ r.year = r.full_date.year /\ r.month = r.full_date.month
         /\ r.day = r.full_date.day
         /\ r.quarter = ((r.month - 1) \div 3) + 1
         /\ r.full_date = D(2026, 12, 31) =>
              r.day_name = "Thursday" /\ r.week_of_year = 53
         /\ r.full_date = D(2027, 1, 4) =>
              r.day_name = "Monday" /\ r.week_of_year = 1

\* C8: full_date (and date_id) are unique in dim_date, every resolution of a
\* calendar date returns the id of its first resolution whatever the time of
\* day, the derived fields of a row are those of its date, and no step
\* changes or removes a row of dim_date.
C8_DateResolutionStable == [](C8_State) /\ [][dim_date \subseteq dim_date']_vars

\* C8 witness: a date is resolved at one time of day to the id under which a
\* historical row of another time of day is stored.
C8_Witness ==
    /\ pc = "fetch"
    /\ \E k \in 1..Len(historical_weather) :
         /\ historical_weather[k].date_id = date_id
         /\ historical_weather[k].time_measured # FormatTime(now)

\* the positions of the entries of aggIn dated on the collection day
TodayIdx == {i \in 1..Len(aggIn) : aggIn[i].dt_txt = aggToday}

\* C9: for a non-empty forecast list, with entries of the collection day
\* temp_now is the temperature of the first of them and temp_min, temp_max
\* are the least and the greatest temperature among them; without such an
\* entry all three are the temperature of the first entry; in both cases
\* temp_min <= temp_now <= temp_max.
C9_Aggregation ==
    aggOut # NoReading =>
      /\ TodayIdx # {} =>
           /\ \E i \in TodayIdx :
                /\ \A j \in TodayIdx : i <= j
                /\ aggOut.temp_now = aggIn[i].temp
           /\ \E i \in TodayIdx : aggOut.temp_min = aggIn[i].temp
           /\ \A i \in TodayIdx : aggOut.temp_min <= aggIn[i].temp
           /\ \E i \in TodayIdx : aggOut.temp_max = aggIn[i].temp
           /\ \A i \in TodayIdx : aggOut.temp_max >= aggIn[i].temp
      /\ TodayIdx = {} =>
           /\ aggOut.temp_now = aggIn[1].temp
           /\ aggOut.temp_min = aggIn[1].temp
           /\ aggOut.temp_max = aggIn[1].temp
      /\ aggOut.temp_min <= aggOut.temp_now
      /\ aggOut.temp_now <= aggOut.temp_max

\* C9 witness: entries of today with 20, 22, 19 after an entry of another
\* day with a higher temperature give 20, 19, 22.
C9_Witness ==
    /\ Len(aggIn) = 4
    /\ aggIn[1].dt_txt # aggToday /\ aggIn[1].temp = 22
    /\ aggIn[2].dt_txt = aggToday /\ aggIn[2].temp = 20
    /\ aggIn[3].dt_txt = aggToday /\ aggIn[3].temp = 22
    /\ aggIn[4].dt_txt = aggToday /\ aggIn[4].temp = 19
    /\ aggOut.temp_now = 20 /\ aggOut.temp_min = 19 /\ aggOut.temp_max = 22

AllTables == {TableNames[i] : i \in 1..Len(TableNames)}

\* C10: a call of create_schema never removes a table and never changes a
\* row of the four tables; on a store that has the four tables it changes
\* nothing and none of its statements is in error.
C10_SchemaIdempotent ==
    [][ (pc = "main" /\ pc' = "collect") =>
          /\ tables \subseteq tables'
          /\ dim_city' = dim_city /\ dim_date' = dim_date
          /\ current_weather' = current_weather
          /\ historical_weather' = historical_weather
          /\ tables = AllTables => (tables' = tables /\ schemaErr' # "statement") ]_vars

\* C10 witness: create_schema has run without error on a store whose four
\* tables hold rows.
C10_Witness ==
    /\ runNo = 2 /\ pc = "collect" /\ schemaErr = "none"
    /\ dim_city # {} /\ dim_date # {} /\ current_weather # {}
    /\ historical_weather # <<>>

\* ----------------------------------------------- the process interrupted --
\* The process is interrupted (SIGINT, kill) inside the batch.  Neither except
\* clause catches it (lines 179 and 182): the connection goes away with what
\* was pending on it, no report and no completion marker are printed.
Interrupt ==
    /\ InLoopBody \/ pc = "report"
    /\ killedAt' = pc
    /\ pc' = "exit"
    /\ exitStatus' = 130
    /\ con' = "closed" /\ tx_cw' = current_weather /\ tx_hw' = historical_weather
    /\ LocalsCleared
    /\ UNCHANGED <<dbVars, runNo, idx, results, schemaErr, reported, clock,
                   histVars, aggVars, raceVars>>

NextKill ==
    \/ Next
    \/ Interrupt

SpecKill == Init /\ [][NextKill]_vars

\* the process has left collect_weather
BatchLeft == pc \in {"finish", "exit"} /\ killedAt = ""

\* C11: after a successful create_schema the batch never ends without a
\* report of one line per city, whatever fails during collection, a failure
\* to open the batch connection included.
C11_AlwaysReports ==
    (schemaErr = "none" /\ BatchLeft) =>
      /\ reported
      /\ Len(results) = NumCities

\* ------------------------------------- concurrent get_or_create_city --
\* Two batches run at the same time, each on a connection of its own; each
\* session is one call of get_or_create_city (lines 90-95) taken statement by
\* statement.  dim_city holds the committed rows; a session's inserted row is
\* its own until its commit.
NumSessions == 2

Sessions == 1..NumSessions

NoRow == {}

\* the rows other sessions have inserted and not committed
PendingOfOthers(s) == UNION {sess[t].row : t \in Sessions \ {s}}

\* the unique index on name (line 28) makes an INSERT wait for the end of the
\* transaction that holds an uncommitted row of the same name
MustWait(s) == \E r \in PendingOfOthers(s) : r.name = sess[s].name

\* the schema exists; dim_city is empty or holds the first city of the tuple;
\* every session is about to call get_or_create_city for one city and the
\* coordinates its own geocoder call returned
InitRace ==
    /\ tables = AllTables
    /\ dim_city \in {{}, {[city_id |-> 1, name |-> cities[1], lat |-> 33, lon |-> -7]}}
    /\ dim_date = {} /\ current_weather = {} /\ historical_weather = <<>>
    /\ tx_cw = {} /\ tx_hw = <<>>
    /\ ProcInit /\ HistInit
    /\ runNo = 1 /\ clock = 1
    /\ aggIn = <<>> /\ aggToday = NoTime.date /\ aggOut = NoReading
    /\ killedAt = ""
    /\ sess \in [Sessions -> [pc : {"insert"}, name : {cities[i] : i \in CityIdx},
                              coords : Coords, row : {NoRow}, waited : {FALSE},
                              id : {0}, err : {""}]]

\* line 92 issued while another session holds an uncommitted row of the name
RaceWait(s) ==
    /\ sess[s].pc = "insert"
    /\ MustWait(s)
    /\ sess' = [sess EXCEPT ![s].pc = "wait", ![s].waited = TRUE]
    /\ UNCHANGED dim_city

\* the wait of line 92 ends with a lock wait timeout, which raises
RaceTimeout(s) ==
    /\ sess[s].pc = "wait"
    /\ MustWait(s)
    /\ sess' = [sess EXCEPT ![s].pc = "failed", ![s].err = "lock wait timeout"]
    /\ UNCHANGED dim_city

\* line 92 executed: INSERT IGNORE against the committed rows; a row that
\* would give the name a second row is refused by the unique index with a
\* duplicate-key error
RaceInsert(s) ==
    /\ sess[s].pc \in {"insert", "wait"}
    /\ ~MustWait(s)
    /\ LET seen  == dim_city \cup PendingOfOthers(s)
           after == InsertIgnoreCity(seen, sess[s].name,
                                     sess[s].coords[1], sess[s].coords[2])
           dup   == \E r \in after \ seen : \E x \in seen : x.name = r.name
       IN  sess' = [sess EXCEPT
                      ![s].pc  = IF dup THEN "failed" ELSE "commit",
                      ![s].err = IF dup THEN "duplicate key" ELSE "",
                      ![s].row = IF dup THEN NoRow ELSE after \ seen]
    /\ UNCHANGED dim_city

\* line 93: the commit makes the session's row visible to all, or the
\* connection is lost and the row is rolled back
RaceCommit(s) ==
    /\ sess[s].pc = "commit"
    /\ \/ /\ dim_city' = dim_city \cup sess[s].row
          /\ sess' = [sess EXCEPT ![s].pc = "select", ![s].row = NoRow]
       \/ /\ UNCHANGED dim_city
          /\ sess' = [sess EXCEPT ![s].pc = "failed", ![s].row = NoRow,
                                  ![s].err = "connection lost"]

\* lines 94-95: SELECT by name in a new transaction, fetchone()[0]; no row
\* makes fetchone() return None and the subscript raise
RaceSelect(s) ==
    /\ sess[s].pc = "select"
    /\ LET ids == SelectCityId(dim_city, sess[s].name)
       IN  \/ /\ ids = {}
              /\ sess' = [sess EXCEPT ![s].pc = "failed", ![s].err = "no row"]
           \/ \E i \in ids :
                sess' = [sess EXCEPT ![s].pc = "done", ![s].id = i]
    /\ UNCHANGED dim_city

NextRace ==
    \E s \in Sessions :
      /\ \/ RaceWait(s)
         \/ RaceTimeout(s)
         \/ RaceInsert(s)
         \/ RaceCommit(s)
         \/ RaceSelect(s)
      /\ UNCHANGED <<tables, dim_date, current_weather, historical_weather, conVars,
                     procVars, localVars, histVars, aggVars, killedAt>>

SpecRace == InitRace /\ [][NextRace]_vars

\* C12: when calls of get_or_create_city for one name interleave, none fails
\* with a duplicate-key error, the calls that return give the same id, and
\* dim_city holds one row for the name, never two.
C12_ConcurrentResolution ==
    /\ \A s \in Sessions : sess[s].err # "duplicate key"
    /\ \A r1, r2 \in dim_city : r1.name = r2.name => r1 = r2
    /\ \A s, t \in Sessions :
         (sess[s].pc = "done" /\ sess[t].pc = "done" /\ sess[s].name = sess[t].name)
           => sess[s].id = sess[t].id
    /\ \A s \in Sessions :
         sess[s].pc = "done" =>
           \E r \in dim_city : r.name = sess[s].name /\ r.city_id = sess[s].id

\* C12 witness: two calls for a name that had no row have both returned, one
\* of them having issued its INSERT while the other's row was uncommitted.
C12_Witness ==
    /\ sess # <<>>
    /\ \E s, t \in Sessions :
         /\ s # t /\ sess[s].name = sess[t].name
         /\ sess[s].pc = "done" /\ sess[t].pc = "done"
         /\ sess[t].waited
         /\ sess[s].id = sess[t].id
         /\ sess[s].name = cities[2]

\* the order of the statements of the loop body, lines 132-176
StepAfter ==
    [geocode |-> "city", city |-> "date", date |-> "fetch", fetch |-> "aggregate",
     aggregate |-> "upsert", upsert |-> "append", append |-> "commit"]

\* C13: inside the body of a city a step either goes on to the next step in
\* the order geocode, city, date, fetch, aggregate, upsert, append, commit, or
\* ends the body by appending the city's report entry and moving to the next
\* city: a failure entry from any step, the success entry only behind the
\* commit.  Nothing is retried: the geocoder is called once per city, the
\* snapshot is written by the upsert step only, the history by the append
\* step only.
C13_StepOrder ==
    [][ InLoopBody =>
          /\ \/ /\ pc # "commit"
                /\ pc' = StepAfter[pc]
                /\ idx' = idx /\ results' = results
             \/ /\ Len(results') = Len(results) + 1
                /\ IsPrefix(results, results')
                /\ results'[Len(results')].city = cities[idx]
                /\ results'[Len(results')].ok => pc = "commit"
                /\ idx' = idx + 1
                /\ pc' = IF idx = NumCities THEN "report" ELSE "geocode"
          /\ geoCalled' # geoCalled =>
                (pc = "geocode" /\ idx \notin geoCalled /\ geoCalled' = geoCalled \cup {idx})
          /\ tx_cw' # tx_cw => (pc = "upsert" \/ con' = "lost")
          /\ tx_hw' # tx_hw => (pc = "append" \/ con' = "lost")
      ]_vars

\* C13 witness: the loop has ended, the first city went through all steps and
\* the last one failed after its geocoder call.
C13_Witness ==
    /\ pc = "report" /\ Len(results) = NumCities
    /\ results[1].ok /\ ~results[NumCities].ok
    /\ geoCalled = CityIdx

\* the committed facts of the k-th city carry the reading of its success in
\* this run: its snapshot row, and a historical row added since the run began
FactsCommitted(k) ==
    \E id \in IdsOf(k) :
      /\ \E r \in current_weather :
           r.city_id = id /\ Measurement(r) = lastGood[k]
      /\ \E j \in (Len(startHist) + 1)..Len(historical_weather) :
           /\ historical_weather[j].city_id = id
           /\ Measurement(historical_weather[j]) = lastGood[k]

\* C14: from the moment a city's success entry is in the report, its snapshot
\* row and its new historical row are committed with the reported reading,
\* and they stay so through every later step of the run: failures of later
\* cities, loss of the connection, interruption of the process.
C14_SuccessDurable ==
    \A k \in 1..Len(results) :
      results[k].ok =>
        /\ results[k].temp_now = lastGood[k].temp_now
        /\ FactsCommitted(k)

\* C14 witness: the process was interrupted while the facts of a later city
\* were pending, after the first city had succeeded.
C14_Witness ==
    /\ killedAt \in {"append", "commit"}
    /\ Len(results) >= 1 /\ results[1].ok
    /\ FactsCommitted(1)

C16_CityRowsImmutable ==
    [][ \A r \in dim_city : r \in dim_city' ]_vars

\* C16 witness: in a later run get_or_create_city has returned for a city
\* whose stored coordinates differ from the ones the geocoder gave this time.
C16_Witness ==
    /\ runNo = 2 /\ pc = "date"
    /\ \E r \in dim_city :
         /\ r.name = cities[idx] /\ r.city_id = city_id
         /\ r.city_id = firstCityId[idx]
         /\ <<r.lat, r.lon>> # <<lat, lon>>

\* the conditions a fact row carries are those of the loop body's locals
HasConditions(row) ==
    /\ row.humidity = humidity
    /\ row.wind_speed = wind_speed
    /\ row.condition_text = condition

\* C17: the aggregation takes humidity, wind_speed and condition from the
\* first entry of the forecast list as it was received, whatever the day of
\* that entry; the upsert and the append write these values, and the commit
\* that records the success makes rows with these values the city's snapshot
\* row and its newest historical row.
C17_ConditionsOfFirstEntry ==
    [][ /\ (pc = "aggregate" /\ pc' = "upsert") =>
             /\ humidity' = data[1].humidity
             /\ wind_speed' = data[1].wind
             /\ condition' = data[1].description
        /\ (pc = "upsert" /\ pc' = "append") =>
             /\ <<humidity', wind_speed', condition'>> = <<humidity, wind_speed, condition>>
             /\ \A r \in tx_cw' : r.city_id = city_id => HasConditions(r)
             /\ \E r \in tx_cw' : r.city_id = city_id
        /\ (pc = "append" /\ pc' = "commit") =>
             /\ <<humidity', wind_speed', condition'>> = <<humidity, wind_speed, condition>>
             /\ tx_hw'[Len(tx_hw')].city_id = city_id
             /\ HasConditions(tx_hw'[Len(tx_hw')])
        /\ (pc = "commit" /\ SuccessStep) =>
             /\ \E r \in current_weather' : r.city_id = city_id /\ HasConditions(r)
             /\ historical_weather'[Len(historical_weather')].city_id = city_id
             /\ HasConditions(historical_weather'[Len(historical_weather')])
      ]_vars

\* C17 witness: a city has succeeded on a forecast whose first entry is of the
\* next day and rainy while the collection day's entry is clear: the committed
\* rows have the temperature of the second entry and the conditions of the
\* first.
C17_Witness ==
    /\ Len(results) >= 1 /\ results[1].ok /\ results[1].temp_now = 19
    /\ \E r \in current_weather :
         /\ r.city_id \in IdsOf(1)
         /\ r.temp_now = 19 /\ r.temp_max = 19
         /\ r.humidity = 85 /\ r.wind_speed = 7 /\ r.condition_text = "light rain"
    /\ \E j \in 1..Len(historical_weather) :
         /\ historical_weather[j].city_id \in IdsOf(1)
         /\ historical_weather[j].temp_now = 19
         /\ historical_weather[j].temp_max = 19
         /\ historical_weather[j].humidity = 85

\* the positions of the historical rows of city id
HistOf(id) == {j \in 1..Len(historical_weather) : historical_weather[j].city_id = id}

\* C18: once a batch run has ended, for every city id the snapshot has a row
\* if and only if the history has at least one row, and the measurements of
\* the snapshot row are those of the city's newest historical row.
C18_FactTablesAgree ==
    (pc \in {"finish", "exit"}) =>
      \A c \in dim_city :
        /\ (\E r \in current_weather : r.city_id = c.city_id) <=> HistOf(c.city_id) # {}
        /\ \A r \in current_weather :
             (r.city_id = c.city_id /\ HistOf(c.city_id) # {}) =>
                Measurement(r) = Measurement(historical_weather[MaxOf(HistOf(c.city_id))])

CityIds == {c.city_id : c \in dim_city}

DateIds == {d.date_id : d \in dim_date}

\* every fact row, committed or pending on the batch connection, references
\* committed dimension rows, and so do the ids the loop body holds when it
\* comes to the fact writes
C19_State ==
    /\ \A r \in current_weather \cup tx_cw : r.city_id \in CityIds
    /\ \A j \in 1..Len(historical_weather) :
         /\ historical_weather[j].city_id \in CityIds
         /\ historical_weather[j].date_id \in DateIds
    /\ \A j \in 1..Len(tx_hw) :
         tx_hw[j].city_id \in CityIds /\ tx_hw[j].date_id \in DateIds
    /\ pc \in {"fetch", "aggregate", "upsert", "append", "commit"} =>
         /\ \E c \in dim_city : c.city_id = city_id /\ c.name = cities[idx]
         /\ \E d \in dim_date : d.date_id = date_id /\ d.full_date = now.date

\* no step removes or changes a dimension row, and a body that ends at the
\* fetch or later, in failure or success, leaves the city's two dimension rows
C19_Step ==
    /\ \A c \in dim_city : c \in dim_city'
    /\ \A d \in dim_date : d \in dim_date'
    /\ (pc \in {"fetch", "aggregate", "upsert", "append", "commit"}
          /\ Len(results') = Len(results) + 1) =>
         /\ \E c \in dim_city' : c.city_id = city_id /\ c.name = cities[idx]
         /\ \E d \in dim_date' : d.date_id = date_id /\ d.full_date = now.date

\* C19: in every reachable state every snapshot row references a city of
\* dim_city and every historical row a city of dim_city and a date of
\* dim_date, the dimension rows of a city being committed before its first
\* fact write; a city that fails at the fetch or later leaves its city row
\* and its date row in the store.
C19_ReferentialIntegrity == [](C19_State) /\ [][C19_Step]_vars

\* C19 witness: a run has ended in which the first city failed after its
\* dimension rows were committed: it has a city row and a date row and no
\* fact row.
C19_Witness ==
    /\ BatchEnded /\ runNo = 1 /\ fault[1]
    /\ IdsOf(1) # {} /\ dim_date # {}
    /\ SnapRows(current_weather, 1) = {}
    /\ HistCount(historical_weather, 1) = 0
    /\ Len(historical_weather) > 0

====
